---- MODULE Spec2Model ----
(***************************************************************************)
(* Export / verification subsystem of the infinity mirror visualizer:      *)
(* utils/exportUtils.js (generateSignature, verifySignature,               *)
(* captureCanvasSnapshot, serializeConfiguration, createExportZip,         *)
(* sendToManufacturer, validateImportedConfig), the state and the export   *)
(* handlers of App.jsx, and the dialog of ExportModal.jsx.                 *)
(*                                                                         *)
(* JavaScript values are records tagged by t.  An object keeps its         *)
(* properties as a sequence of [k, v] pairs, because JSON.stringify walks  *)
(* them in insertion order.  JSON text is a sequence of tokens, so that    *)
(* stringify and parse are two different conversions.                      *)
(***************************************************************************)
EXTENDS Integers, Sequences, FiniteSets, TLC

VARIABLES
    \* ---- signer exercised on its own (generateSignature / verifySignature)
    sgPc,        \* "start" | "signed" | "verified"
    sgData,      \* the document handed to generateSignature
    sgSecret,    \* the secretKey argument
    sgSig,       \* the signature generateSignature returned
    sgOther,     \* the document handed to verifySignature
    sgKind,      \* how sgOther relates to sgData: "same" | "mutated" | "reordered"
    sgResult,    \* what verifySignature returned
    \* ---- one createExportZip call and the archive it returns
    now,         \* the clock new Date() reads
    bPc,         \* "ready" | "digest" | "zipping" | "done" | "failed"
    bConfig,     \* argument config
    bSnapshot,   \* argument snapshotBlob: a blob or null
    bCustomer,   \* argument customerInfo
    bMeta,       \* local configWithMeta
    bZip,        \* the JSZip object: entry name -> content
    zipBlob,     \* the blob createExportZip resolved to
    bError,      \* the error createExportZip rejected with
    \* ---- one validateImportedConfig call
    tamper,      \* what happened to the archive before it was opened
    received,    \* argument zipBlob of validateImportedConfig
    vres,        \* its outcome
    \* ---- the App component
    ui,          \* the useState values serializeConfiguration reads
    isExportModalOpen,
    isExporting,
    ex,          \* the export handler invocations: their locals and position
    event,       \* what the last finished export did: a download, an alert
    upload       \* the file the upload input handled last, when that is recorded

sigVars == <<sgPc, sgData, sgSecret, sgSig, sgOther, sgKind, sgResult>>

buildVars == <<bPc, bConfig, bSnapshot, bCustomer, bMeta, bZip, zipBlob, bError>>

openVars == <<tamper, received, vres>>

flowVars == <<isExportModalOpen, isExporting, ex, event, upload>>

vars == <<sgPc, sgData, sgSecret, sgSig, sgOther, sgKind, sgResult, now,
          bPc, bConfig, bSnapshot, bCustomer, bMeta, bZip, zipBlob, bError,
          tamper, received, vres, ui, isExportModalOpen, isExporting, ex, event,
          upload>>

-----------------------------------------------------------------------------
(* JavaScript values *)

Undef == [t |-> "undefined"]
Null == [t |-> "null"]
NaN == [t |-> "nan"]
Bool(b) == [t |-> "bool", b |-> b]
Num(n) == [t |-> "num", n |-> n]
Str(s) == [t |-> "str", s |-> s]
Fld(k, v) == [k |-> k, v |-> v]
Obj(fields) == [t |-> "obj", f |-> fields]

\* the || operator on a string operand: '' is falsy, as are undefined and null
OrDefault(v, d) ==
    IF v.t \in {"undefined", "null", "nan"} \/ v = Str("") THEN d ELSE v

\* truthiness of a value in an if
Truthy(v) ==
    ~ (v.t \in {"undefined", "null", "nan"} \/ v = Str("") \/ v = Bool(FALSE)
       \/ v = Num(0))

Keys(o) == {o.f[i].k : i \in 1..Len(o.f)}

\* o[k] on a value that is not null or undefined: a missing property, and any
\* property of a primitive that is not one of its own, reads as undefined
Get(o, k) ==
    IF o.t = "obj" /\ k \in Keys(o)
    THEN o.f[CHOOSE i \in 1..Len(o.f) : o.f[i].k = k].v
    ELSE Undef

\* o[k] = v: an existing key keeps its place, a new key goes last
Put(o, k, v) ==
    IF k \in Keys(o)
    THEN Obj([i \in 1..Len(o.f) |-> IF o.f[i].k = k THEN Fld(k, v) ELSE o.f[i]])
    ELSE Obj(Append(o.f, Fld(k, v)))

\* delete o[k]
Del(o, k) == Obj(SelectSeq(o.f, LAMBDA e : e.k # k))

-----------------------------------------------------------------------------
(* JSON text: tokens *)

P(c) == [k |-> c]
Lit(c) == [k |-> "lit", c |-> c]
NumTok(n) == [k |-> "num", n |-> n]
StrTok(s) == [k |-> "str", v |-> s]
Raw(s) == [k |-> "raw", s |-> s]
WS == [k |-> "ws"]

\* JSON.stringify(value, null, indent): the properties of an object in insertion
\* order, a property whose value is undefined left out, NaN written as null.
\* With an indent, white space follows '{', ',' and ':' and precedes '}'.
RECURSIVE SerializeJSONProperty(_, _)
RECURSIVE SerializeJSONObject(_, _, _)

SerializeJSONObject(K, i, indent) ==
    IF i > Len(K) THEN <<>>
    ELSE (IF i > 1 THEN <<P(",")>> ELSE <<>>)
         \o (IF indent THEN <<WS>> ELSE <<>>)
         \o <<StrTok(Str(K[i].k)), P(":")>>
         \o (IF indent THEN <<WS>> ELSE <<>>)
         \o SerializeJSONProperty(K[i].v, indent)
         \o SerializeJSONObject(K, i + 1, indent)

SerializeJSONProperty(v, indent) ==
    CASE v.t = "null" -> <<Lit("null")>>
      [] v.t = "nan" -> <<Lit("null")>>
      [] v.t = "bool" -> <<Lit(IF v.b THEN "true" ELSE "false")>>
      [] v.t = "num" -> <<NumTok(v.n)>>
      [] v.t = "str" -> <<StrTok(v)>>
      [] v.t = "obj" ->
            LET K == SelectSeq(v.f, LAMBDA e : e.v.t # "undefined")
            IN  IF K = <<>> THEN <<P("{"), P("}")>>
                ELSE <<P("{")>> \o SerializeJSONObject(K, 1, indent)
                     \o (IF indent THEN <<WS>> ELSE <<>>) \o <<P("}")>>

\* JSON.stringify returns undefined for undefined, else the text
JSONStringify(v, indent) ==
    IF v.t = "undefined" THEN Undef
    ELSE [t |-> "text", toks |-> SerializeJSONProperty(v, indent)]

\* String(x) + s for x the result of JSON.stringify
StrConcat(x, s) ==
    (IF x.t = "undefined" THEN <<Raw("undefined")>> ELSE x.toks) \o <<Raw(s)>>

-----------------------------------------------------------------------------
(* JSON.parse: a recursive descent over the tokens *)

ParseFail == [ok |-> FALSE, v |-> Undef, next |-> 0]

RECURSIVE SkipWS(_, _)
SkipWS(toks, i) ==
    IF i <= Len(toks) /\ toks[i].k = "ws" THEN SkipWS(toks, i + 1) ELSE i

RECURSIVE ParseValue(_, _)
RECURSIVE ParseMembers(_, _, _)

\* the members of an object after '{' or ',': "key" : value, then ',' or '}'
ParseMembers(toks, i0, acc) ==
    LET i == SkipWS(toks, i0)
        c == SkipWS(toks, i + 1)
    IN  IF i > Len(toks) \/ toks[i].k # "str" THEN ParseFail
        ELSE IF c > Len(toks) \/ toks[c].k # ":" THEN ParseFail
        ELSE LET r == ParseValue(toks, c + 1)
                 j == SkipWS(toks, r.next)
                 obj == Put(acc, toks[i].v.s, r.v)
             IN  IF ~ r.ok \/ j > Len(toks) THEN ParseFail
                 ELSE IF toks[j].k = "}" THEN [ok |-> TRUE, v |-> obj, next |-> j + 1]
                 ELSE IF toks[j].k = "," THEN ParseMembers(toks, j + 1, obj)
                 ELSE ParseFail

ParseValue(toks, i0) ==
    LET i == SkipWS(toks, i0)
    IN  IF i > Len(toks) THEN ParseFail
        ELSE LET tk == toks[i]
             IN  CASE tk.k = "lit" ->
                        [ok |-> TRUE,
                         v |-> IF tk.c = "null" THEN Null ELSE Bool(tk.c = "true"),
                         next |-> i + 1]
                   [] tk.k = "num" -> [ok |-> TRUE, v |-> Num(tk.n), next |-> i + 1]
                   [] tk.k = "str" -> [ok |-> TRUE, v |-> tk.v, next |-> i + 1]
                   [] tk.k = "{" ->
                        LET j == SkipWS(toks, i + 1)
                        IN  IF j <= Len(toks) /\ toks[j].k = "}"
                            THEN [ok |-> TRUE, v |-> Obj(<<>>), next |-> j + 1]
                            ELSE ParseMembers(toks, i + 1, Obj(<<>>))
                   [] OTHER -> ParseFail

\* JSON.parse(text): the value, or a SyntaxError when the text is not one JSON value
JSONParse(text) ==
    LET r == ParseValue(text.toks, 1)
    IN  IF r.ok /\ SkipWS(text.toks, r.next) = Len(text.toks) + 1
        THEN [ok |-> TRUE, v |-> r.v]
        ELSE [ok |-> FALSE, v |-> Undef]

-----------------------------------------------------------------------------
(* Signer / verifier *)

DEFAULT_SECRET == "INFINITY_MIRROR_V1"

\* crypto.subtle.digest('SHA-256', bytes) written as 64 hex digits.  The digest is
\* taken as collision-free, so the hex string is represented by what was hashed.
Sha256Hex(bytes) == [t |-> "str", sha256 |-> bytes]

DIGEST_BYTES == 32

\* the bytes of the digest.  SHA-256 itself is not computed: the values stand
\* for it, they depend on what was hashed and cover one- and two-digit bytes
DigestBytes(bytes) ==
    [i \in 1..DIGEST_BYTES |-> (Len(bytes) * 7 * i + 3 * i * i) % 256]

HexDigits == <<"0", "1", "2", "3", "4", "5", "6", "7",
               "8", "9", "a", "b", "c", "d", "e", "f">>

\* b.toString(16)
ToString16(b) ==
    IF b < 16 THEN <<HexDigits[b + 1]>>
    ELSE <<HexDigits[(b \div 16) + 1], HexDigits[(b % 16) + 1]>>

padStart2_none(digits) == digits

\* .padStart(2, '0')
padStart2(digits) == IF Len(digits) < 2 THEN <<"0">> \o digits ELSE digits

\* hashArray.map(b => b.toString(16).padStart(2, '0')).join('')
RECURSIVE HashHex(_)
HashHex(hashArray) ==
    IF hashArray = <<>> THEN <<>>
    ELSE padStart2(ToString16(Head(hashArray))) \o HashHex(Tail(hashArray))

\* the characters of a signature string
SignatureChars(signature) == HashHex(DigestBytes(signature.sha256))

generateSignature_versionOnly(data, secretKey) ==
    Sha256Hex(StrConcat(JSONStringify(Get(data, "version"), FALSE), secretKey))

generateSignature(data, secretKey) ==
    Sha256Hex(StrConcat(JSONStringify(data, FALSE), secretKey))

verifySignature_defaultKey(data, signature, secretKey) ==
    generateSignature(data, DEFAULT_SECRET) = signature

verifySignature(data, signature, secretKey) ==
    generateSignature(data, secretKey) = signature

-----------------------------------------------------------------------------
(* Application state (App.jsx) and serializeConfiguration *)

SHAPE_PRESETS == {"hexagon", "circle", "star"}

\* new Date().toISOString() at clock reading n
IsoString(n) == [t |-> "str", iso |-> n]

\* the useState initial values; slider values are held in tenths
InitialState ==
    [selectedPreset |-> Str("hexagon"), shapeType |-> Str("hexagon"),
     customSvgPath |-> Null, svgRenderMode |-> Str("outline"),
     wallColor |-> Str("#fffceb"), frameColor |-> Str("#424243"),
     lightColor |-> Str("#00ffff"), mirrorSpacing |-> Num(200),
     iconScale |-> Num(10), iconRotation |-> Num(0), iconPositionX |-> Num(0),
     iconPositionY |-> Num(0), edgeThickness |-> Num(2),
     reflectionDepth |-> Num(70), autoOrbit |-> Bool(FALSE),
     enableBloom |-> Bool(FALSE)]

serializeConfiguration(state, date) ==
    Obj(<<Fld("version", Str("1.0.0")),
          Fld("timestamp", IsoString(date)),
          Fld("icon", Obj(<<Fld("selectedPreset", state.selectedPreset),
                            Fld("shapeType", state.shapeType),
                            Fld("customSvgPath", state.customSvgPath),
                            Fld("svgRenderMode", state.svgRenderMode)>>)),
          Fld("colors", Obj(<<Fld("wallColor", state.wallColor),
                              Fld("frameColor", state.frameColor),
                              Fld("lightColor", state.lightColor)>>)),
          Fld("transform", Obj(<<Fld("scale", state.iconScale),
                                 Fld("rotation", state.iconRotation),
                                 Fld("positionX", state.iconPositionX),
                                 Fld("positionY", state.iconPositionY),
                                 Fld("edgeThickness", state.edgeThickness)>>)),
          Fld("mirror", Obj(<<Fld("spacing", state.mirrorSpacing),
                              Fld("reflectionDepth", state.reflectionDepth)>>)),
          Fld("performance", Obj(<<Fld("autoOrbit", state.autoOrbit),
                                   Fld("enableBloom", state.enableBloom)>>))>>)

handlePresetChange_selectOnly(state, preset) ==
    [state EXCEPT !.selectedPreset = Str(preset)]

\* handlePresetChange(preset), with the effect on selectedPreset that follows it
handlePresetChange(state, preset) ==
    IF preset # "custom"
    THEN [state EXCEPT !.selectedPreset = Str(preset), !.shapeType = Str(preset)]
    ELSE [state EXCEPT !.selectedPreset = Str(preset)]

handleCustomUpload_ignoreParseError(state, svgText, parseError) ==
    [state EXCEPT !.customSvgPath = Str(svgText), !.shapeType = Str("custom"),
                  !.selectedPreset = Str("custom")]

\* handleCustomUpload(svgText): a text the DOMParser rejects changes nothing
handleCustomUpload(state, svgText, parseError) ==
    IF parseError THEN state
    ELSE [state EXCEPT !.customSvgPath = Str(svgText), !.shapeType = Str("custom"),
                       !.selectedPreset = Str("custom")]

-----------------------------------------------------------------------------
(* JSZip: an archive is a map from entry names to contents *)

EmptyZip == [n \in {} |-> Undef]

\* zip.file(name, data)
zipFile(zip, name, data) ==
    [n \in DOMAIN zip \cup {name} |-> IF n = name THEN data ELSE zip[n]]

\* zip.remove(name)
zipRemove(zip, name) == [n \in DOMAIN zip \ {name} |-> zip[n]]

\* the blob zip.generateAsync resolves to
ZipBlob(zip) == [t |-> "blob", kind |-> "zip", files |-> zip]

\* bytes that are no ZIP container
NotAZip == [t |-> "blob", kind |-> "bytes"]

PngBlob == [t |-> "blob", kind |-> "png"]

Error(name, message) == [name |-> name, message |-> Str(message)]

\* JSZip.loadAsync(blob): the entries, or a rejection for bytes that are no archive
JSZipLoadAsync(blob) ==
    IF blob.kind = "zip" THEN [ok |-> TRUE, files |-> blob.files, err |-> Undef]
    ELSE [ok |-> FALSE, files |-> EmptyZip,
          err |-> Error("Error", "Can't find end of central directory : is this a zip file ?")]

-----------------------------------------------------------------------------
(* createExportZip *)

\* { ...config, customer: { name, email, notes, exportDate } }
configWithMeta(config, customerInfo, date) ==
    Put(config, "customer",
        Obj(<<Fld("name", OrDefault(Get(customerInfo, "name"), Str("Anonymous"))),
              Fld("email", OrDefault(Get(customerInfo, "email"), Str(""))),
              Fld("notes", OrDefault(Get(customerInfo, "notes"), Str(""))),
              Fld("exportDate", IsoString(date))>>))

exportData_unmerged(meta, signature) ==
    Obj(<<Fld("config", Del(meta, "customer")), Fld("signature", signature),
          Fld("signatureVersion", Str("1.0"))>>)

\* { config: configWithMeta, signature, signatureVersion: '1.0' }
exportData(meta, signature) ==
    Obj(<<Fld("config", meta), Fld("signature", signature),
          Fld("signatureVersion", Str("1.0"))>>)

\* config.icon.customSvgPath && config.icon.shapeType === 'custom'
hasCustomSvg_anyShape(config) ==
    Truthy(Get(Get(config, "icon"), "customSvgPath"))

hasCustomSvg(config) ==
    /\ Truthy(Get(Get(config, "icon"), "customSvgPath"))
    /\ Get(Get(config, "icon"), "shapeType") = Str("custom")

\* the README.txt template: the lines that vary
readme(config, customerInfo, date) ==
    [t |-> "str",
     readme |-> [exportDate |-> IsoString(date),
                 customer |-> OrDefault(Get(customerInfo, "name"), Str("Anonymous")),
                 email |-> OrDefault(Get(customerInfo, "email"), Str("N/A")),
                 files |-> {"configuration.json", "preview.png"}
                             \cup (IF hasCustomSvg(config) THEN {"custom-icon.svg"}
                                   ELSE {})]]

\* if (snapshotBlob) zip.file('preview.png', snapshotBlob)
addSnapshot_always(zip, snapshotBlob) == zipFile(zip, "preview.png", snapshotBlob)

addSnapshot(zip, snapshotBlob) ==
    IF Truthy(snapshotBlob) THEN zipFile(zip, "preview.png", snapshotBlob) ELSE zip

\* if (hasCustomSvg) zip.file('custom-icon.svg', config.icon.customSvgPath)
addCustomSvg(zip, config) ==
    IF hasCustomSvg(config)
    THEN zipFile(zip, "custom-icon.svg", Get(Get(config, "icon"), "customSvgPath"))
    ELSE zip

\* the entries written between the digest and zip.generateAsync
zipEntries(config, meta, signature, snapshotBlob, customerInfo, date) ==
    LET z1 == zipFile(EmptyZip, "configuration.json",
                      JSONStringify(exportData(meta, signature), TRUE))
        z2 == addSnapshot(z1, snapshotBlob)
        z3 == addCustomSvg(z2, config)
    IN  zipFile(z3, "README.txt", readme(config, customerInfo, date))

-----------------------------------------------------------------------------
(* validateImportedConfig *)

INVALID_SIGNATURE == Str("Invalid signature - file may have been tampered with")
MISSING_CONFIG == Str("Missing configuration.json")

Returned(valid, error, config) ==
    [outcome |-> "returned", valid |-> valid, error |-> error, config |-> config]

Threw(err) == [outcome |-> "threw", valid |-> FALSE, error |-> err.message, config |-> Undef]

NoResult == [outcome |-> "none", valid |-> FALSE, error |-> Undef, config |-> Undef]

validateBody_checksIcon(blob) ==
    LET zip == JSZipLoadAsync(blob)
    IN  IF ~ zip.ok THEN [thrown |-> TRUE, err |-> zip.err, ret |-> NoResult]
        ELSE IF "configuration.json" \notin DOMAIN zip.files
        THEN [thrown |-> FALSE, err |-> Undef,
              ret |-> Returned(FALSE, MISSING_CONFIG, Undef)]
        ELSE LET parsed == JSONParse(zip.files["configuration.json"])
                 doc == parsed.v
             IN  IF ~ parsed.ok
                 THEN [thrown |-> TRUE, ret |-> NoResult,
                       err |-> Error("SyntaxError", "Unexpected token in JSON")]
                 ELSE IF doc.t \in {"null", "undefined"}
                 THEN [thrown |-> TRUE, ret |-> NoResult,
                       err |-> Error("TypeError", "Cannot read properties of null (reading 'config')")]
                 ELSE IF ~ verifySignature(Get(doc, "config"), Get(doc, "signature"),
                                           DEFAULT_SECRET)
                 THEN [thrown |-> FALSE, err |-> Undef,
                       ret |-> Returned(FALSE, INVALID_SIGNATURE, Undef)]
                 ELSE IF /\ hasCustomSvg(Get(doc, "config"))
                         /\ \/ "custom-icon.svg" \notin DOMAIN zip.files
                            \/ zip.files["custom-icon.svg"] #
                                  Get(Get(Get(doc, "config"), "icon"), "customSvgPath")
                 THEN [thrown |-> FALSE, err |-> Undef,
                       ret |-> Returned(FALSE, INVALID_SIGNATURE, Undef)]
                 ELSE [thrown |-> FALSE, err |-> Undef,
                       ret |-> Returned(TRUE, Undef, Get(doc, "config"))]

\* the body of the try block: what it returns, or what it throws
validateBody(blob) ==
    LET zip == JSZipLoadAsync(blob)
    IN  IF ~ zip.ok THEN [thrown |-> TRUE, err |-> zip.err, ret |-> NoResult]
        ELSE IF "configuration.json" \notin DOMAIN zip.files
        THEN [thrown |-> FALSE, err |-> Undef,
              ret |-> Returned(FALSE, MISSING_CONFIG, Undef)]
        ELSE LET parsed == JSONParse(zip.files["configuration.json"])
                 doc == parsed.v
             IN  IF ~ parsed.ok
                 THEN [thrown |-> TRUE, ret |-> NoResult,
                       err |-> Error("SyntaxError", "Unexpected token in JSON")]
                 ELSE IF doc.t \in {"null", "undefined"}
                 THEN [thrown |-> TRUE, ret |-> NoResult,
                       err |-> Error("TypeError", "Cannot read properties of null (reading 'config')")]
                 ELSE IF ~ verifySignature(Get(doc, "config"), Get(doc, "signature"),
                                           DEFAULT_SECRET)
                 THEN [thrown |-> FALSE, err |-> Undef,
                       ret |-> Returned(FALSE, INVALID_SIGNATURE, Undef)]
                 ELSE [thrown |-> FALSE, err |-> Undef,
                       ret |-> Returned(TRUE, Undef, Get(doc, "config"))]

validateImportedConfig_noCatch(zipBlob_) ==
    LET r == validateBody(zipBlob_)
    IN  IF r.thrown THEN Threw(r.err) ELSE r.ret

\* try { ... } catch (error) { return { valid: false, error: error.message } }
validateImportedConfig(zipBlob_) ==
    LET r == validateBody(zipBlob_)
    IN  IF r.thrown THEN Returned(FALSE, r.err.message, Undef) ELSE r.ret

-----------------------------------------------------------------------------
(* captureCanvasSnapshot *)

Resolved(step, value) == [settled |-> "resolved", step |-> step, value |-> value]
Rejected(step, err) == [settled |-> "rejected", step |-> step, value |-> err]

captureCanvasSnapshot_noResolve(surface) ==
    CASE surface = "none" -> [pc |-> "pending", capture |-> Undef]
      [] surface = "noFrames" ->
            [pc |-> "captured", capture |-> Resolved("noFrames", Null)]
      [] surface = "canvas" -> [pc |-> "raf1", capture |-> Undef]

\* the executor of the promise, up to the first requestAnimationFrame: no
\* canvas resolves null at once, and so does a requestAnimationFrame that throws
captureCanvasSnapshot(surface) ==
    CASE surface = "none" -> [pc |-> "captured", capture |-> Resolved("none", Null)]
      [] surface = "noFrames" ->
            [pc |-> "captured", capture |-> Resolved("noFrames", Null)]
      [] surface = "canvas" -> [pc |-> "raf1", capture |-> Undef]

frameCallback_single(pc) == "read"

\* requestAnimationFrame(() => { requestAnimationFrame(() => { ...toDataURL... }) }):
\* the first callback requests a second frame, the second one reads the pixels
frameCallback(pc) == IF pc = "raf1" THEN "request" ELSE "read"

\* try { canvasElement.toDataURL('image/png', 1.0) ... } catch { resolve(null) }
toDataURLThrew == Resolved("toDataURL", Null)

blobSettled_noCatch(outcome) ==
    CASE outcome = "blob" -> Resolved("blob", PngBlob)
      [] outcome = "empty" -> Resolved("empty", Null)
      [] outcome = "error" -> Rejected("error", Error("TypeError", "Failed to fetch"))

\* fetch(dataUrl).then(res => res.blob()).then(blob => ...).catch(() => resolve(null))
blobSettled(outcome) ==
    CASE outcome = "blob" -> Resolved("blob", PngBlob)
      [] outcome = "empty" -> Resolved("empty", Null)
      [] outcome = "error" -> Resolved("error", Null)

-----------------------------------------------------------------------------
(* sendToManufacturer *)

MANUFACTURER_ENDPOINT == "https://your-manufacturer-api.com/upload"

\* the entries appended to the FormData, in order
formData(zipBlob_, customerInfo) ==
    <<Fld("file", [blob |-> zipBlob_, filename |-> "infinity-mirror-config.zip"]),
      Fld("customerName", OrDefault(Get(customerInfo, "name"), Str("Anonymous"))),
      Fld("customerEmail", OrDefault(Get(customerInfo, "email"), Str(""))),
      Fld("notes", OrDefault(Get(customerInfo, "notes"), Str("")))>>

sendToManufacturer_twice(zipBlob_, customerInfo, manufacturerEndpoint) ==
    LET req == [url |-> manufacturerEndpoint, method |-> "POST",
                body |-> formData(zipBlob_, customerInfo)]
    IN  <<req, req>>

\* the fetch calls sendToManufacturer makes before it suspends
sendToManufacturer(zipBlob_, customerInfo, manufacturerEndpoint) ==
    <<[url |-> manufacturerEndpoint, method |-> "POST",
       body |-> formData(zipBlob_, customerInfo)]>>

\* response.ok
ResponseOk(status) == status \in 200..299

\* `Server responded with ${response.status}`
ServerResponded(status) == [t |-> "str", respondedWith |-> status]

SendReturned(success, data, error) ==
    [outcome |-> "returned", success |-> success, data |-> data, error |-> error]

SendThrew(err) ==
    [outcome |-> "threw", success |-> FALSE, data |-> Undef, error |-> err.message]

sendResult_noCatch(response) ==
    IF response.kind = "networkError" THEN SendThrew(response.err)
    ELSE IF ~ ResponseOk(response.status)
         THEN SendThrew([message |-> ServerResponded(response.status)])
         ELSE LET parsed == JSONParse(response.body)
              IN  IF parsed.ok THEN SendReturned(TRUE, parsed.v, Undef)
                  ELSE SendThrew(Error("SyntaxError", "Unexpected end of JSON input"))

\* what sendToManufacturer returns once the fetch has settled: every throw
\* inside the try block ends in { success: false, error: error.message }
sendResult(response) ==
    IF response.kind = "networkError"
    THEN SendReturned(FALSE, Undef, response.err.message)
    ELSE IF ~ ResponseOk(response.status)
         THEN SendReturned(FALSE, Undef, ServerResponded(response.status))
         ELSE LET parsed == JSONParse(response.body)
              IN  IF parsed.ok THEN SendReturned(TRUE, parsed.v, Undef)
                  ELSE SendReturned(FALSE, Undef,
                                    Str("Unexpected end of JSON input"))

-----------------------------------------------------------------------------
(* ExportModal and the export handlers of App *)

MaxExports == 2

\* String.prototype.includes
Includes(str, sub) ==
    \E i \in 1..(Len(str) - Len(sub) + 1) : SubSeq(str, i, i + Len(sub) - 1) = sub

IsSpace(c) == c \in {" ", "\t", "\n"}

RECURSIVE TrimStart(_)
TrimStart(str) ==
    IF str = "" THEN ""
    ELSE IF IsSpace(SubSeq(str, 1, 1)) THEN TrimStart(SubSeq(str, 2, Len(str)))
         ELSE str

RECURSIVE TrimEnd(_)
TrimEnd(str) ==
    IF str = "" THEN ""
    ELSE IF IsSpace(SubSeq(str, Len(str), Len(str)))
         THEN TrimEnd(SubSeq(str, 1, Len(str) - 1))
         ELSE str

\* String.prototype.trim
Trim(str) == TrimEnd(TrimStart(str))

\* customerEmail.includes('@')
IncludesAt(email) == Includes(email, "@")

\* handleExport: customerInfo = { name: customerName.trim(), ... }
handleExport(form) ==
    Obj(<<Fld("name", Str(Trim(form.customerName))),
          Fld("email", Str(Trim(form.customerEmail))),
          Fld("notes", Str(Trim(form.notes)))>>)

isFormValid_noAt(sendMethod, form) ==
    sendMethod = "send" =>
        (Trim(form.customerName) # "" /\ Trim(form.customerEmail) # "")

\* isFormValid(): customerName.trim() && customerEmail.trim() &&
\* customerEmail.includes('@') for 'send', true for 'download'
isFormValid(sendMethod, form) ==
    sendMethod = "send" =>
        /\ Trim(form.customerName) # ""
        /\ Trim(form.customerEmail) # ""
        /\ IncludesAt(form.customerEmail)

primaryDisabled_formOnly(sendMethod, form, isProcessing) ==
    ~ isFormValid(sendMethod, form)

\* the primary button: disabled={!isFormValid() || isProcessing}
primaryDisabled(sendMethod, form, isProcessing) ==
    ~ isFormValid(sendMethod, form) \/ isProcessing

handlerConfig_afterAwait(atStart, live, date) == serializeConfiguration(live, date)

\* const config = serializeConfiguration({...}) runs before the first await;
\* that value is the one handed to createExportZip, whatever the state is by then
handlerConfig(atStart, live, date) == atStart

generateAsync_partial(zip, ok) ==
    IF ok THEN Resolved("zip", ZipBlob(zip)) ELSE Resolved("zip", ZipBlob(EmptyZip))

\* await zip.generateAsync(...): the blob, or a rejection that leaves createExportZip
generateAsync(zip, ok) ==
    IF ok THEN Resolved("zip", ZipBlob(zip))
    ELSE Rejected("zip", Error("Error", "compression failed"))

\* one invocation of handleExportDownload / handleSendToManufacturer
IdleExport ==
    [pc |-> "idle", method |-> "none", closure |-> Undef, config |-> Undef,
     customerInfo |-> Undef, frames |-> 0, framesAtRead |-> 0, capture |-> Undef,
     snapshot |-> Undef, meta |-> Undef, zip |-> EmptyZip, zipBlob |-> Undef,
     requests |-> <<>>]

NoEvent ==
    [type |-> "none", cause |-> "none", blob |-> Undef, alert |-> Undef,
     response |-> Undef, result |-> Undef, calls |-> 0]

\* alert(prefix + error.message)
Alert(prefix, message, suffix) ==
    [prefix |-> prefix, message |-> message, suffix |-> suffix]

\* the end of the alert in the catch block of handleSendToManufacturer
MANUAL_FALLBACK == "\n\nPlease download the file and send it manually."

\* downloadZipFile(zipBlob, filename), setIsExportModalOpen(false), alert(...)
Downloaded(blob) ==
    [NoEvent EXCEPT !.type = "download", !.blob = blob,
                    !.alert = Alert("Export successful! Your configuration has been downloaded.", Undef, "")]

\* the catch block of the handler that was running
Failed(method, cause, message) ==
    [NoEvent EXCEPT !.type = "alert", !.cause = cause,
                    !.alert = IF method = "send"
                              THEN Alert("Failed to send to manufacturer: ", message,
                                         MANUAL_FALLBACK)
                              ELSE Alert("Export failed: ", message, "")]

sendSucceeded_always(result) == TRUE

\* if (result.success) in handleSendToManufacturer
sendSucceeded(result) == result.outcome = "returned" /\ result.success

-----------------------------------------------------------------------------
(* handleFileUpload of ControlsPanel *)

UpperCase == "ABCDEFGHIJKLMNOPQRSTUVWXYZ"
LowerCase == "abcdefghijklmnopqrstuvwxyz"

\* the lower-case letter of every upper-case letter
Lower ==
    [c \in {SubSeq(UpperCase, n, n) : n \in 1..Len(UpperCase)} |->
        LET n == CHOOSE k \in 1..Len(UpperCase) : SubSeq(UpperCase, k, k) = c
        IN  SubSeq(LowerCase, n, n)]

LowerChar(c) == IF c \in DOMAIN Lower THEN Lower[c] ELSE c

\* String.prototype.toLowerCase
RECURSIVE ToLowerCase(_)
ToLowerCase(str) ==
    IF str = "" THEN ""
    ELSE LowerChar(SubSeq(str, 1, 1)) \o ToLowerCase(SubSeq(str, 2, Len(str)))

\* String.prototype.endsWith
EndsWith(str, suffix) ==
    /\ Len(str) >= Len(suffix)
    /\ SubSeq(str, Len(str) - Len(suffix) + 1, Len(str)) = suffix

\* file.type === 'image/svg+xml' || file.name.toLowerCase().endsWith('.svg')
isSvg(file) ==
    file.type = "image/svg+xml" \/ EndsWith(ToLowerCase(file.name), ".svg")

\* handleFileUpload, and the handleCustomUpload it calls through onCustomUpload
\* once file.text() has resolved; every other way out only sets uploadError
handleFileUpload(state, file) ==
    IF ~ isSvg(file) THEN state
    ELSE IF ~ file.readable THEN state
    ELSE IF ~ Includes(file.text, "<svg") /\ ~ Includes(file.text, "<path") THEN state
    ELSE handleCustomUpload(state, file.text, ~ file.wellFormed)

\* selectedPreset, shapeType and customSvgPath
IconOf(state) ==
    [selectedPreset |-> state.selectedPreset, shapeType |-> state.shapeType,
     customSvgPath |-> state.customSvgPath]

NoUpload == [done |-> FALSE, file |-> Undef, before |-> Undef]

\* no export handler has been started, no upload has been recorded
FlowIdle ==
    /\ isExportModalOpen = FALSE
    /\ isExporting = FALSE
    /\ ex = [i \in 1..MaxExports |-> IdleExport]
    /\ event = NoEvent
    /\ upload = NoUpload

-----------------------------------------------------------------------------
(* Inputs *)

Colors == {"#fffceb", "#ffffff"}
SvgTexts == {"<svg><path d='M0 0L1 1'/></svg>"}
Secrets == {DEFAULT_SECRET, "ANOTHER_SECRET"}

\* what the file input can be given: type, name and content of the file,
\* whether file.text() resolves, whether the DOMParser accepts the content
Files ==
    {[type |-> "image/svg+xml", name |-> "icon.svg", text |-> x,
      readable |-> TRUE, wellFormed |-> TRUE] : x \in SvgTexts}
      \cup {[type |-> "", name |-> "LOGO.SVG", text |-> x,
              readable |-> TRUE, wellFormed |-> TRUE] : x \in SvgTexts}
      \cup {[type |-> "text/plain", name |-> "icon.svg.txt", text |-> x,
              readable |-> TRUE, wellFormed |-> TRUE] : x \in SvgTexts}
      \cup {[type |-> "image/png", name |-> "photo.png", text |-> "PNG",
              readable |-> TRUE, wellFormed |-> FALSE],
             [type |-> "", name |-> "notes.svg", text |-> "a <b>hexagon</b>",
              readable |-> TRUE, wellFormed |-> FALSE],
             [type |-> "image/svg+xml", name |-> "broken.svg", text |-> "<svg><path",
              readable |-> TRUE, wellFormed |-> FALSE],
             [type |-> "", name |-> "shape.svg", text |-> "<path d='M0 0'",
              readable |-> TRUE, wellFormed |-> FALSE],
             [type |-> "image/svg+xml", name |-> "gone.svg", text |-> "",
              readable |-> FALSE, wellFormed |-> FALSE]}

\* the icon states the preset selector and the upload handler lead to from
\* InitialState: a preset selection sets shapeType with it, and shapeType is
\* "custom" only after an upload stored its text
IconStates ==
    {ic \in [selectedPreset : SHAPE_PRESETS \cup {"custom"},
             shapeType : SHAPE_PRESETS \cup {"custom"},
             customSvgPath : {Null} \cup {Str(x) : x \in SvgTexts}] :
        /\ ic.selectedPreset # "custom" => ic.shapeType = ic.selectedPreset
        /\ ic.shapeType = "custom" =>
              ic.selectedPreset = "custom" /\ ic.customSvgPath # Null}

UiStates ==
    {[InitialState EXCEPT !.selectedPreset = Str(ic.selectedPreset),
                          !.shapeType = Str(ic.shapeType),
                          !.customSvgPath = ic.customSvgPath,
                          !.wallColor = Str(c)] :
        ic \in IconStates, c \in Colors}

\* canvasRef.current?.querySelector('canvas'): nothing, a canvas in a window
\* without animation frames, a canvas
Surfaces == {"none", "noFrames", "canvas"}

\* how fetch(dataUrl) and res.blob() end
BlobOutcomes == {"blob", "empty", "error"}

AcceptedBody == JSONStringify(Obj(<<Fld("success", Bool(TRUE))>>), FALSE)
RefusedBody ==
    JSONStringify(Obj(<<Fld("success", Bool(FALSE)), Fld("error", Str("quota"))>>),
                  FALSE)
HtmlBody == [t |-> "text", toks |-> <<Raw("<html>")>>]

\* how the POST ends: no connection, or a status line and a body
Responses ==
    {[kind |-> "networkError", status |-> 0, body |-> HtmlBody,
      err |-> Error("TypeError", "Failed to fetch")]}
      \cup {[kind |-> "http", status |-> st, body |-> b, err |-> Undef] :
               st \in {200, 500}, b \in {AcceptedBody, RefusedBody, HtmlBody}}

\* documents handed to the signer: the configurations, and what a parsed
\* configuration.json can hold in their place
SigDocs ==
    {serializeConfiguration(u, 0) : u \in UiStates}
        \cup {Undef, Null, Num(5), Str("x"), Obj(<<>>),
              Obj(<<Fld("version", Str("1.0.0")), Fld("scale", NaN)>>),
              Obj(<<Fld("version", Str("1.0.0")), Fld("scale", Null)>>)}

\* one property written, at the top level (g = "") or inside the group g
FieldMutations ==
    {[g |-> "colors", k |-> "wallColor", v |-> Str("#ffffff")],
     [g |-> "colors", k |-> "wallColor", v |-> Str("#fffceb")],
     [g |-> "icon", k |-> "shapeType", v |-> Str("star")],
     [g |-> "icon", k |-> "customSvgPath", v |-> NaN],
     [g |-> "icon", k |-> "customSvgPath", v |-> Null],
     [g |-> "mirror", k |-> "spacing", v |-> Num(210)],
     [g |-> "transform", k |-> "scale", v |-> Undef],
     [g |-> "transform", k |-> "glow", v |-> Undef],
     [g |-> "", k |-> "version", v |-> Str("1.0.1")],
     [g |-> "", k |-> "scale", v |-> Null]}

MutationApplies(doc, m) ==
    doc.t = "obj" /\ (m.g = "" \/ (m.g \in Keys(doc) /\ Get(doc, m.g).t = "obj"))

ApplyMutation(doc, m) ==
    IF m.g = "" THEN Put(doc, m.k, m.v)
    ELSE Put(doc, m.g, Put(Get(doc, m.g), m.k, m.v))

\* the same properties inserted in the opposite order
Reverse(q) == [i \in 1..Len(q) |-> q[Len(q) + 1 - i]]
Reordered(doc) == Obj(Reverse(doc.f))

\* equal field for field, whatever the order the fields were inserted in
RECURSIVE FieldEqual(_, _)
FieldEqual(a, b) ==
    IF a.t = "obj" /\ b.t = "obj"
    THEN /\ Keys(a) = Keys(b)
         /\ \A k \in Keys(a) : FieldEqual(Get(a, k), Get(b, k))
    ELSE a = b

-----------------------------------------------------------------------------
(* The signer on its own *)

\* no createExportZip or validateImportedConfig call is in progress
ArchiveUnused ==
    /\ now = 0
    /\ bPc = "unused"
    /\ bConfig = Undef
    /\ bSnapshot = Null
    /\ bCustomer = Undef
    /\ bMeta = Undef
    /\ bZip = EmptyZip
    /\ zipBlob = Undef
    /\ bError = Undef
    /\ tamper = "none"
    /\ received = Undef
    /\ vres = NoResult
    /\ ui = InitialState
    /\ FlowIdle

InitSig ==
    /\ sgPc = "start"
    /\ sgData \in SigDocs
    /\ sgSecret \in Secrets
    /\ sgSig = Undef
    /\ sgOther = Undef
    /\ sgKind = "none"
    /\ sgResult = FALSE
    /\ ArchiveUnused

\* const signature = await generateSignature(data, secretKey)
Sign ==
    /\ sgPc = "start"
    /\ sgSig' = generateSignature(sgData, sgSecret)
    /\ sgPc' = "signed"
    /\ UNCHANGED <<sgData, sgSecret, sgOther, sgKind, sgResult>>
    /\ UNCHANGED <<now, buildVars, openVars, ui, flowVars>>

VerifyWith(other, kind) ==
    /\ sgPc = "signed"
    /\ sgOther' = other
    /\ sgKind' = kind
    /\ sgResult' = verifySignature(other, sgSig, sgSecret)
    /\ sgPc' = "verified"
    /\ UNCHANGED <<sgData, sgSecret, sgSig>>
    /\ UNCHANGED <<now, buildVars, openVars, ui, flowVars>>

\* await verifySignature(data, signature, secretKey) on the document signed
VerifySame == VerifyWith(sgData, "same")

\* ... on the document with one property written
VerifyMutated ==
    \E m \in FieldMutations :
        /\ MutationApplies(sgData, m)
        /\ VerifyWith(ApplyMutation(sgData, m), "mutated")

\* ... on the same properties inserted in another order
VerifyReordered ==
    /\ sgData.t = "obj"
    /\ VerifyWith(Reordered(sgData), "reordered")

NextSig == Sign \/ VerifySame \/ VerifyMutated \/ VerifyReordered

SpecSig == InitSig /\ [][NextSig]_vars

-----------------------------------------------------------------------------
(* Claims about the signer *)

SerializedForm(doc) == JSONStringify(doc, FALSE)

\* C1: round trip -- verifySignature(C, generateSignature(C, S), S) is true for
\* every document C and secret S.
C1_RoundTrip ==
    (sgPc = "verified" /\ sgKind = "same") => sgResult = TRUE

C1_Witness ==
    /\ sgPc = "verified" /\ sgKind = "same" /\ sgResult = TRUE
    /\ sgSecret # DEFAULT_SECRET /\ sgData.t = "obj" /\ "icon" \in Keys(sgData)

\* C2: tamper sensitivity -- when one property of C is written so that the
\* serialized form changes, the signature of C no longer verifies.
C2_TamperSensitive ==
    (sgPc = "verified" /\ sgKind = "mutated"
        /\ SerializedForm(sgOther) # SerializedForm(sgData)) => sgResult = FALSE

C2_Witness ==
    /\ sgPc = "verified" /\ sgKind = "mutated" /\ sgResult = FALSE
    /\ SerializedForm(sgOther) # SerializedForm(sgData)
    /\ Get(Get(sgOther, "colors"), "wallColor") # Get(Get(sgData, "colors"), "wallColor")

\* C3: canonical serialization -- two documents that are equal field for field
\* have the same serialized form and so the same signature, whatever the order
\* their fields were inserted in.
C3_Canonical ==
    (sgPc = "verified" /\ FieldEqual(sgData, sgOther)) =>
        (SerializedForm(sgOther) = SerializedForm(sgData) /\ sgResult = TRUE)

-----------------------------------------------------------------------------
(* Building an archive and opening it, possibly after it was edited *)

MaxClock == 2

\* the configurations serializeConfiguration hands to createExportZip
ExportConfigs ==
    {serializeConfiguration(u, 0) :
        u \in {x \in UiStates : x.wallColor = InitialState.wallColor}}

\* customerInfo: the parameter default {}, and the trimmed fields of the form
CustomerInfos ==
    {Obj(<<>>),
     Obj(<<Fld("name", Str("")), Fld("email", Str("")), Fld("notes", Str(""))>>),
     Obj(<<Fld("name", Str("John Doe")), Fld("email", Str("john@example.com")),
           Fld("notes", Str(""))>>),
     Obj(<<Fld("name", Str("Ann")), Fld("email", Str("")),
           Fld("notes", Str("matte frame"))>>)}

\* the fields of the form as they were typed
Forms ==
    {[customerName |-> "", customerEmail |-> "", notes |-> ""],
     [customerName |-> "  ", customerEmail |-> " ", notes |-> ""],
     [customerName |-> " John Doe ", customerEmail |-> "john@example.com ",
      notes |-> ""],
     [customerName |-> "Ann", customerEmail |-> "", notes |-> " matte frame"],
     [customerName |-> "Bob", customerEmail |-> "bob.example.com", notes |-> ""]}

FormInfos == {handleExport(form) : form \in Forms}

Tampers ==
    {"none", "garbage", "dropDoc", "compact", "editWall", "editCustomer",
     "reorder", "version2", "dropVersion", "dropSignature", "dropConfig",
     "docNull", "docNumber", "docString", "docEmpty", "truncate", "forge",
     "signUndefined", "editEmail", "editNotes", "editExportDate",
     "swapIcon", "stripExtras"}

\* an SVG text that no configuration of the model carries
OTHER_SVG == "<svg><circle r='9'/></svg>"

HasDoc(blob) == blob.kind = "zip" /\ "configuration.json" \in DOMAIN blob.files
DocText(blob) == blob.files["configuration.json"]
Doc(blob) == JSONParse(DocText(blob)).v
WithDocText(blob, text) == ZipBlob(zipFile(blob.files, "configuration.json", text))
WithDoc(blob, v) == WithDocText(blob, JSONStringify(v, TRUE))

\* the archive as it reaches the verifier
Tampered(blob, m) ==
    LET doc == Doc(blob)
        cfg == Get(doc, "config")
        wall == ApplyMutation(cfg, [g |-> "colors", k |-> "wallColor",
                                    v |-> Str("#000000")])
    IN  CASE m = "none" -> blob
          [] m = "garbage" -> NotAZip
          [] m = "dropDoc" -> ZipBlob(zipRemove(blob.files, "configuration.json"))
          [] m = "compact" -> WithDocText(blob, JSONStringify(doc, FALSE))
          [] m = "editWall" -> WithDoc(blob, Put(doc, "config", wall))
          [] m = "editCustomer" ->
                WithDoc(blob, Put(doc, "config",
                    ApplyMutation(cfg, [g |-> "customer", k |-> "name",
                                        v |-> Str("Mallory")])))
          [] m = "editEmail" ->
                WithDoc(blob, Put(doc, "config",
                    ApplyMutation(cfg, [g |-> "customer", k |-> "email",
                                        v |-> Str("mallory@example.com")])))
          [] m = "editNotes" ->
                WithDoc(blob, Put(doc, "config",
                    ApplyMutation(cfg, [g |-> "customer", k |-> "notes",
                                        v |-> Str("rush order")])))
          [] m = "editExportDate" ->
                WithDoc(blob, Put(doc, "config",
                    ApplyMutation(cfg, [g |-> "customer", k |-> "exportDate",
                                        v |-> IsoString(MaxClock + 1)])))
          [] m = "reorder" -> WithDoc(blob, Put(doc, "config", Reordered(cfg)))
          [] m = "version2" -> WithDoc(blob, Put(doc, "signatureVersion", Str("2.0")))
          [] m = "dropVersion" -> WithDoc(blob, Del(doc, "signatureVersion"))
          [] m = "dropSignature" -> WithDoc(blob, Del(doc, "signature"))
          [] m = "dropConfig" -> WithDoc(blob, Del(doc, "config"))
          [] m = "docNull" -> WithDoc(blob, Null)
          [] m = "docNumber" -> WithDoc(blob, Num(5))
          [] m = "docString" -> WithDoc(blob, Str("x"))
          [] m = "docEmpty" -> WithDoc(blob, Obj(<<>>))
          [] m = "truncate" ->
                WithDocText(blob, [t |-> "text",
                    toks |-> SubSeq(DocText(blob).toks, 1, Len(DocText(blob).toks) - 1)])
          [] m = "forge" ->
                WithDoc(blob, Put(Put(doc, "config", wall), "signature",
                                  generateSignature(wall, DEFAULT_SECRET)))
          [] m = "signUndefined" ->
                WithDoc(blob, Obj(<<Fld("signature",
                                        generateSignature(Undef, DEFAULT_SECRET))>>))
          [] m = "swapIcon" ->
                ZipBlob(zipFile(zipFile(blob.files, "custom-icon.svg", Str(OTHER_SVG)),
                                "notes.txt", Str("see attached")))
          [] m = "stripExtras" ->
                ZipBlob([n \in DOMAIN blob.files \cap {"configuration.json"} |->
                            blob.files[n]])

SigUnused ==
    /\ sgPc = "unused"
    /\ sgData = Undef
    /\ sgSecret = DEFAULT_SECRET
    /\ sgSig = Undef
    /\ sgOther = Undef
    /\ sgKind = "none"
    /\ sgResult = FALSE

InitArchive ==
    /\ now = 0
    /\ bPc = "ready"
    /\ bConfig \in ExportConfigs
    /\ bSnapshot \in {Null, PngBlob}
    /\ bCustomer \in CustomerInfos
    /\ bMeta = Undef
    /\ bZip = EmptyZip
    /\ zipBlob = Undef
    /\ bError = Undef
    /\ tamper = "none"
    /\ received = Undef
    /\ vres = NoResult
    /\ ui = InitialState
    /\ FlowIdle
    /\ SigUnused

\* the clock advances while a call is suspended
Tick ==
    /\ now < MaxClock
    /\ now' = now + 1
    /\ UNCHANGED <<sigVars, buildVars, openVars, ui, flowVars>>

\* createExportZip up to `await generateSignature(configWithMeta)`
BuildStart ==
    /\ bPc = "ready"
    /\ bMeta' = configWithMeta(bConfig, bCustomer, now)
    /\ bPc' = "digest"
    /\ UNCHANGED <<bConfig, bSnapshot, bCustomer, bZip, zipBlob, bError>>
    /\ UNCHANGED <<now, sigVars, openVars, ui, flowVars>>

\* from the signature to `await zip.generateAsync(...)`
BuildSigned ==
    /\ bPc = "digest"
    /\ bZip' = zipEntries(bConfig, bMeta, generateSignature(bMeta, DEFAULT_SECRET),
                          bSnapshot, bCustomer, now)
    /\ bPc' = "zipping"
    /\ UNCHANGED <<bConfig, bSnapshot, bCustomer, bMeta, zipBlob, bError>>
    /\ UNCHANGED <<now, sigVars, openVars, ui, flowVars>>

\* generateAsync resolves: return zipBlob
ZipResolved ==
    /\ bPc = "zipping"
    /\ zipBlob' = ZipBlob(bZip)
    /\ bPc' = "done"
    /\ UNCHANGED <<bConfig, bSnapshot, bCustomer, bMeta, bZip, bError>>
    /\ UNCHANGED <<now, sigVars, openVars, ui, flowVars>>

\* generateAsync rejects: the rejection leaves createExportZip
ZipRejected ==
    /\ bPc = "zipping"
    /\ bError' = Error("Error", "compression failed")
    /\ bPc' = "failed"
    /\ UNCHANGED <<bConfig, bSnapshot, bCustomer, bMeta, bZip, zipBlob>>
    /\ UNCHANGED <<now, sigVars, openVars, ui, flowVars>>

\* validateImportedConfig(zipBlob) on the archive as it was received, once
Open ==
    \E m \in Tampers :
        /\ bPc = "done"
        /\ received = Undef
        /\ tamper' = m
        /\ received' = Tampered(zipBlob, m)
        /\ vres' = validateImportedConfig(received')
        /\ UNCHANGED <<now, sigVars, buildVars, ui, flowVars>>

NextArchive ==
    Tick \/ BuildStart \/ BuildSigned \/ ZipResolved \/ ZipRejected \/ Open

SpecArchive == InitArchive /\ [][NextArchive]_vars

-----------------------------------------------------------------------------
(* The controls of the App component *)

InitApp ==
    /\ SigUnused
    /\ ArchiveUnused

\* the preset <select>: onPresetChange(e.target.value)
PresetChange ==
    \E preset \in SHAPE_PRESETS \cup {"custom"} :
        /\ ui' = handlePresetChange(ui, preset)
        /\ upload' = NoUpload
        /\ UNCHANGED <<isExportModalOpen, isExporting, ex, event>>
        /\ UNCHANGED <<now, sigVars, buildVars, openVars>>

\* the file input, shown while the preset is "custom": handleFileUpload.  The
\* handler touches the App state only in its last step, through setters
UploadStep(file) ==
    /\ ui.selectedPreset = Str("custom")
    /\ ui' = handleFileUpload(ui, file)
    /\ UNCHANGED <<isExportModalOpen, isExporting, ex, event>>
    /\ UNCHANGED <<now, sigVars, buildVars, openVars>>

CustomUpload ==
    \E file \in Files : UploadStep(file) /\ UNCHANGED upload

\* the wall colour inputs: setWallColor(e.target.value)
WallColorChange ==
    \E c \in Colors :
        /\ ui' = [ui EXCEPT !.wallColor = Str(c)]
        /\ upload' = NoUpload
        /\ UNCHANGED <<isExportModalOpen, isExporting, ex, event>>
        /\ UNCHANGED <<now, sigVars, buildVars, openVars>>

\* the Save & Export button: handleExportClick
ExportClick ==
    /\ isExportModalOpen' = TRUE
    /\ UNCHANGED <<ui, isExporting, ex, event>>
    /\ UNCHANGED <<now, sigVars, buildVars, openVars, upload>>

\* a click on the overlay around the dialog: onClose
OverlayClick ==
    /\ isExportModalOpen
    /\ isExportModalOpen' = FALSE
    /\ UNCHANGED <<ui, isExporting, ex, event>>
    /\ UNCHANGED <<now, sigVars, buildVars, openVars, upload>>

\* the close button and Cancel: onClose, disabled={isProcessing}
CancelClick ==
    /\ isExportModalOpen
    /\ ~ isExporting
    /\ isExportModalOpen' = FALSE
    /\ UNCHANGED <<ui, isExporting, ex, event>>
    /\ UNCHANGED <<now, sigVars, buildVars, openVars, upload>>

\* a new invocation takes the first record that is not in use
FreeSlot(i) == ex[i].pc = "idle" /\ \A j \in 1..(i - 1) : ex[j].pc # "idle"

\* the handler returns: its finally block, and its locals are gone
Finish(i, ev, closeModal) ==
    /\ ex' = [ex EXCEPT ![i] = IdleExport]
    /\ isExporting' = FALSE
    /\ isExportModalOpen' = (IF closeModal THEN FALSE ELSE isExportModalOpen)
    /\ event' = ev
    /\ UNCHANGED <<ui, now, sigVars, buildVars, openVars, upload>>

\* the primary button: handleExport, then handleExportDownload or
\* handleSendToManufacturer up to `await captureCanvasSnapshot(canvas)`
ExportStart ==
    \E i \in 1..MaxExports, sendMethod \in {"download", "send"},
       form \in Forms, surface \in Surfaces :
        /\ isExportModalOpen
        /\ ~ primaryDisabled(sendMethod, form, isExporting)
        /\ FreeSlot(i)
        /\ isExporting' = TRUE
        /\ ex' = [ex EXCEPT ![i] =
                    [IdleExport EXCEPT !.pc = captureCanvasSnapshot(surface).pc,
                                       !.capture = captureCanvasSnapshot(surface).capture,
                                       !.method = sendMethod,
                                       !.closure = ui,
                                       !.config = serializeConfiguration(ui, now),
                                       !.customerInfo = handleExport(form)]]
        /\ event' = NoEvent
        /\ UNCHANGED <<ui, isExportModalOpen, now, sigVars, buildVars, openVars, upload>>

\* a requestAnimationFrame callback of captureCanvasSnapshot runs
AnimationFrame ==
    \E i \in 1..MaxExports, threw \in BOOLEAN :
        /\ ex[i].pc \in {"raf1", "raf2"}
        /\ ex' = [ex EXCEPT ![i] =
                    IF frameCallback(ex[i].pc) = "request"
                    THEN [@ EXCEPT !.pc = "raf2", !.frames = @ + 1]
                    ELSE IF threw
                         THEN [@ EXCEPT !.pc = "captured", !.frames = @ + 1,
                                        !.framesAtRead = ex[i].frames + 1,
                                        !.capture = toDataURLThrew]
                         ELSE [@ EXCEPT !.pc = "fetching", !.frames = @ + 1,
                                        !.framesAtRead = ex[i].frames + 1]]
        /\ UNCHANGED <<ui, isExportModalOpen, isExporting, event>>
        /\ UNCHANGED <<now, sigVars, buildVars, openVars, upload>>

\* fetch(dataUrl) and res.blob() settle: the promise of captureCanvasSnapshot settles
BlobSettled ==
    \E i \in 1..MaxExports, outcome \in BlobOutcomes :
        /\ ex[i].pc = "fetching"
        /\ ex' = [ex EXCEPT ![i] = [@ EXCEPT !.pc = "captured",
                                             !.capture = blobSettled(outcome)]]
        /\ UNCHANGED <<ui, isExportModalOpen, isExporting, event>>
        /\ UNCHANGED <<now, sigVars, buildVars, openVars, upload>>

\* the handler resumes after `await captureCanvasSnapshot(canvas)` and runs
\* createExportZip up to `await generateSignature(configWithMeta)`
Captured ==
    \E i \in 1..MaxExports :
        /\ ex[i].pc = "captured"
        /\ IF ex[i].capture.settled = "rejected"
           THEN Finish(i, Failed(ex[i].method, "capture", ex[i].capture.value.message),
                       FALSE)
           ELSE /\ ex' = [ex EXCEPT ![i] =
                            [@ EXCEPT !.pc = "digest",
                                      !.snapshot = ex[i].capture.value,
                                      !.capture = Undef,
                                      !.meta = configWithMeta(
                                                  handlerConfig(ex[i].config, ui, now),
                                                  ex[i].customerInfo, now)]]
                /\ UNCHANGED <<ui, isExportModalOpen, isExporting, event>>
                /\ UNCHANGED <<now, sigVars, buildVars, openVars, upload>>

\* createExportZip from the signature to `await zip.generateAsync(...)`
Digested ==
    \E i \in 1..MaxExports :
        /\ ex[i].pc = "digest"
        /\ ex' = [ex EXCEPT ![i] =
                    [@ EXCEPT !.pc = "zipping",
                              !.zip = zipEntries(handlerConfig(ex[i].config, ui, now),
                                                 ex[i].meta,
                                                 generateSignature(ex[i].meta,
                                                                   DEFAULT_SECRET),
                                                 ex[i].snapshot, ex[i].customerInfo,
                                                 now)]]
        /\ UNCHANGED <<ui, isExportModalOpen, isExporting, event>>
        /\ UNCHANGED <<now, sigVars, buildVars, openVars, upload>>

\* generateAsync settles and the handler resumes: its catch block, or
\* downloadZipFile and the end of handleExportDownload, or sendToManufacturer
\* up to `await fetch(...)`
ZipSettled ==
    \E i \in 1..MaxExports, ok \in BOOLEAN :
        /\ ex[i].pc = "zipping"
        /\ LET built == generateAsync(ex[i].zip, ok)
           IN  IF built.settled = "rejected"
               THEN Finish(i, Failed(ex[i].method, "build", built.value.message), FALSE)
               ELSE IF ex[i].method = "download"
                    THEN Finish(i, Downloaded(built.value), TRUE)
                    ELSE /\ ex' = [ex EXCEPT ![i] =
                                     [@ EXCEPT !.pc = "sending",
                                               !.zipBlob = built.value,
                                               !.requests = @ \o sendToManufacturer(
                                                   built.value, ex[i].customerInfo,
                                                   MANUFACTURER_ENDPOINT)]]
                         /\ UNCHANGED <<ui, isExportModalOpen, isExporting, event>>
                         /\ UNCHANGED <<now, sigVars, buildVars, openVars, upload>>

\* the POST settles: the rest of sendToManufacturer, then the rest of
\* handleSendToManufacturer
ResponseSettled ==
    \E i \in 1..MaxExports, response \in Responses :
        /\ ex[i].pc = "sending"
        /\ LET result == sendResult(response)
               seen == [NoEvent EXCEPT !.response = response, !.result = result,
                                       !.calls = Len(ex[i].requests)]
           IN  IF sendSucceeded(result)
               THEN Finish(i, [seen EXCEPT !.type = "sent",
                                  !.alert = Alert("Successfully sent to manufacturer! You will receive a confirmation email shortly.", Undef, "")],
                           TRUE)
               ELSE Finish(i, [seen EXCEPT !.type = "alert", !.cause = "send",
                                  !.alert = Alert("Failed to send to manufacturer: ",
                                                  OrDefault(result.error,
                                                      Str("Failed to send to manufacturer")),
                                                  MANUAL_FALLBACK)],
                           FALSE)

NextApp ==
    \/ PresetChange \/ CustomUpload \/ WallColorChange
    \/ ExportClick \/ OverlayClick \/ CancelClick
    \/ ExportStart \/ AnimationFrame \/ BlobSettled \/ Captured \/ Digested
    \/ ZipSettled \/ ResponseSettled

SpecApp == InitApp /\ [][NextApp]_vars

\* The browser runs every requested animation frame callback, and the
\* promises the handler awaits (the fetch of the data URL, the resumption
\* after the capture, crypto.subtle.digest, generateAsync, the POST) settle
Scheduling ==
    /\ WF_vars(AnimationFrame)
    /\ WF_vars(BlobSettled)
    /\ WF_vars(Captured)
    /\ WF_vars(Digested)
    /\ WF_vars(ZipSettled)
    /\ WF_vars(ResponseSettled)

\* the dialog and the export handlers, the controls being left alone
NextFlow ==
    \/ ExportClick \/ OverlayClick \/ CancelClick
    \/ ExportStart \/ AnimationFrame \/ BlobSettled \/ Captured \/ Digested
    \/ ZipSettled \/ ResponseSettled

SpecFlowFair == InitApp /\ [][NextFlow]_vars /\ Scheduling

-----------------------------------------------------------------------------
(* The icon controls alone, with the last upload on record *)

\* handleFileUpload, the file and the icon state it found being kept
RecordedUpload ==
    \E file \in Files :
        /\ UploadStep(file)
        /\ upload' = [done |-> TRUE, file |-> file, before |-> IconOf(ui)]

NextUpload == PresetChange \/ WallColorChange \/ RecordedUpload

SpecUpload == InitApp /\ [][NextUpload]_vars

\* the states the controls lead to are the ones the archive is built from
UiReachable == ui \in UiStates

-----------------------------------------------------------------------------
(* Claims about the archive builder and the archive verifier *)

Opened == vres.outcome # "none"

\* the customer block the builder is to merge in, stamped at clock reading d
ExpectedCustomer(ci, d) ==
    LET name == Get(ci, "name")
        email == Get(ci, "email")
        notes == Get(ci, "notes")
    IN  Obj(<<Fld("name", IF name \in {Undef, Str("")} THEN Str("Anonymous") ELSE name),
              Fld("email", IF email = Undef THEN Str("") ELSE email),
              Fld("notes", IF notes = Undef THEN Str("") ELSE notes),
              Fld("exportDate", IsoString(d))>>)

\* C4: build-then-open round trip -- opening the archive createExportZip
\* returned yields valid = true and a config deep-equal to the input
\* configuration with the customer block (defaulted name, email, notes, and an
\* exportDate) merged in.
C4_BuildOpenRoundTrip ==
    (Opened /\ tamper = "none") =>
        /\ vres.outcome = "returned"
        /\ vres.valid = TRUE
        /\ \E d \in 0..now :
              FieldEqual(vres.config,
                         Put(bConfig, "customer", ExpectedCustomer(bCustomer, d)))

C4_Witness ==
    /\ Opened /\ tamper = "none" /\ vres.valid = TRUE
    /\ bCustomer = Obj(<<>>) /\ bSnapshot = Null
    /\ Get(Get(vres.config, "customer"), "name") = Str("Anonymous")
    /\ Get(Get(vres.config, "customer"), "exportDate") = IsoString(1)

\* the document's signature is the digest of its serialized config followed
\* by the compiled-in secret
SignatureMatches(doc) ==
    Get(doc, "signature") =
        Sha256Hex(StrConcat(JSONStringify(Get(doc, "config"), FALSE), DEFAULT_SECRET))

DocParses(blob) == HasDoc(blob) /\ JSONParse(DocText(blob)).ok

\* C5 as stated: for every archive whose configuration.json parses, the result
\* is valid = true exactly when the signature matches, and otherwise it is
\* valid = false with the signature-mismatch error, returned and not thrown.
C5_Original ==
    (Opened /\ DocParses(received)) =>
        /\ vres.outcome = "returned"
        /\ vres.valid = SignatureMatches(Doc(received))
        /\ (~ vres.valid => vres.error = INVALID_SIGNATURE)

\* C5 amended: the same for every archive whose configuration.json parses to a
\* value other than null.
C5_SignatureDecides ==
    (Opened /\ HasDoc(received)) =>
        LET parsed == JSONParse(DocText(received))
        IN  (parsed.ok /\ parsed.v # Null) =>
                /\ vres.outcome = "returned"
                /\ vres.valid = SignatureMatches(parsed.v)
                /\ (~ vres.valid => vres.error = INVALID_SIGNATURE)

C5_Witness ==
    /\ Opened /\ tamper = "editWall" /\ DocParses(received)
    /\ ~ SignatureMatches(Doc(received))
    /\ vres = Returned(FALSE, INVALID_SIGNATURE, Undef)

\* C6: an archive without a configuration.json entry yields valid = false with
\* the missing-document error, and for every input, bytes that are no archive
\* included, the call returns a result and lets no exception escape.
C6_MissingDocNoThrow ==
    Opened =>
        /\ vres.outcome = "returned"
        /\ (received.kind = "zip" /\ ~ HasDoc(received)
                => vres = Returned(FALSE, MISSING_CONFIG, Undef))
        /\ (received.kind # "zip" => vres.valid = FALSE /\ vres.error # Undef)

C6_Witness ==
    /\ Opened /\ tamper = "dropDoc" /\ received.kind = "zip"
    /\ "README.txt" \in DOMAIN received.files
    /\ vres = Returned(FALSE, MISSING_CONFIG, Undef)

\* the other case of C6: bytes that are no archive at all
C6_WitnessNotAZip ==
    /\ Opened /\ tamper = "garbage" /\ received = NotAZip
    /\ vres.outcome = "returned" /\ vres.valid = FALSE

\* configuration.json is there but is not a {config, signature, ...} document
NotADocument(blob) ==
    /\ HasDoc(blob)
    /\ \/ ~ JSONParse(DocText(blob)).ok
       \/ Doc(blob).t # "obj"
       \/ "config" \notin Keys(Doc(blob))
       \/ "signature" \notin Keys(Doc(blob))

\* C7: a configuration.json that is present but is not parseable as the
\* expected document fails with a malformed-archive error that can be told
\* from the signature-mismatch result.
C7_MalformedDistinct ==
    (Opened /\ NotADocument(received)) =>
        (vres.valid = FALSE /\ vres.error # INVALID_SIGNATURE)

\* C8: valid = true only for a document whose signatureVersion is "1.0".
C8_VersionPinned ==
    (Opened /\ vres.valid) => Get(Doc(received), "signatureVersion") = Str("1.0")

\* C9: with a null snapshot createExportZip completes and its archive has no
\* preview.png entry and is accepted by validateImportedConfig; preview.png
\* is present exactly when the snapshot is not null.
C9_SnapshotSoftFailure ==
    /\ bPc = "failed" => bError = Error("Error", "compression failed")
    /\ bPc = "zipping" => ("preview.png" \in DOMAIN bZip <=> bSnapshot # Null)
    /\ bPc = "done" =>
          ("preview.png" \in DOMAIN zipBlob.files <=> bSnapshot # Null)
    /\ (Opened /\ tamper = "none" /\ bSnapshot = Null) =>
          (vres.valid = TRUE /\ "preview.png" \notin DOMAIN received.files)

C9_Witness ==
    /\ Opened /\ tamper = "none" /\ bSnapshot = Null /\ vres.valid = TRUE
    /\ DOMAIN received.files = {"configuration.json", "README.txt"}

\* C10: an archive built for shapeType "custom" has a custom-icon.svg entry
\* holding the configuration's customSvgPath; an archive built for a preset
\* shape has no such entry.
C10_CustomShapeInclusion ==
    bPc = "done" =>
        LET icon == Get(bConfig, "icon")
        IN  IF Get(icon, "shapeType") = Str("custom")
            THEN /\ "custom-icon.svg" \in DOMAIN zipBlob.files
                 /\ zipBlob.files["custom-icon.svg"] = Get(icon, "customSvgPath")
            ELSE "custom-icon.svg" \notin DOMAIN zipBlob.files

C10_Witness ==
    /\ bPc = "done"
    /\ Get(Get(bConfig, "icon"), "shapeType") = Str("custom")
    /\ "custom-icon.svg" \in DOMAIN zipBlob.files
    /\ zipBlob.files["custom-icon.svg"] \in {Str(x) : x \in SvgTexts}

\* the other case of C10: a preset shape while an earlier upload is still stored
C10_WitnessPreset ==
    /\ bPc = "done"
    /\ Get(Get(bConfig, "icon"), "shapeType") = Str("star")
    /\ Get(Get(bConfig, "icon"), "customSvgPath") # Null
    /\ "custom-icon.svg" \notin DOMAIN zipBlob.files

-----------------------------------------------------------------------------
(* Claims about the application and its export handlers *)

Running == {i \in 1..MaxExports : ex[i].pc # "idle"}

\* C11: in every configuration serializeConfiguration produced for an export,
\* icon.customSvgPath is non-null if and only if icon.shapeType is "custom".
C11_IconConsistent ==
    \A i \in Running :
        LET icon == Get(ex[i].config, "icon")
        IN  Get(icon, "customSvgPath") # Null <=> Get(icon, "shapeType") = Str("custom")

\* C12: every archive createExportZip built (looked at as it was returned,
\* before anything opens it) has one configuration.json entry
\* holding a document with the fields config, signature and signatureVersion,
\* where signatureVersion is "1.0" and signature is 64 lowercase hexadecimal
\* characters, two zero-padded digits for each of the 32 digest bytes.
C12_SignedDocumentShape ==
    (bPc = "done" /\ ~ Opened) =>
        /\ HasDoc(zipBlob)
        /\ LET parsed == JSONParse(DocText(zipBlob))
               doc == parsed.v
               chars == SignatureChars(Get(doc, "signature"))
               bytes == DigestBytes(Get(doc, "signature").sha256)
           IN  /\ parsed.ok
               /\ Keys(doc) = {"config", "signature", "signatureVersion"}
               /\ Get(doc, "signatureVersion") = Str("1.0")
               /\ Len(chars) = 64
               /\ \A n \in 1..Len(chars) :
                     chars[n] \in {HexDigits[k] : k \in 1..16}
               /\ \A i \in 1..DIGEST_BYTES :
                     /\ chars[2 * i - 1] = HexDigits[(bytes[i] \div 16) + 1]
                     /\ chars[2 * i] = HexDigits[(bytes[i] % 16) + 1]

\* an archive whose signature has a byte below 16, written with its leading zero
C12_Witness ==
    /\ bPc = "done" /\ HasDoc(zipBlob)
    /\ LET sig == Get(Doc(zipBlob), "signature")
       IN  /\ \E i \in 1..DIGEST_BYTES : DigestBytes(sig.sha256)[i] < 16
           /\ Len(SignatureChars(sig)) = 64
           /\ \E n \in 1..32 : SignatureChars(sig)[2 * n - 1] = "0"

CustomerEdits == {"editCustomer", "editEmail", "editNotes", "editExportDate"}

\* C13: the payload that is signed is the input configuration with a customer
\* block merged in (a missing name is "Anonymous", a missing email "", missing
\* notes "", plus an exportDate); the signature in the built document is the
\* one of that merged payload, and a built document in which a customer field
\* was changed fails verification.
C13_CustomerSigned ==
    /\ bPc \in {"digest", "zipping", "done"} =>
          \E d \in 0..now :
              FieldEqual(bMeta, Put(bConfig, "customer", ExpectedCustomer(bCustomer, d)))
    /\ (bPc = "done" /\ ~ Opened) =>
          LET built == Doc(zipBlob)
          IN  /\ FieldEqual(Get(built, "config"), bMeta)
              /\ Get(built, "signature") = generateSignature(bMeta, DEFAULT_SECRET)
    /\ (Opened /\ tamper \in CustomerEdits) =>
          /\ Get(Get(Doc(received), "config"), "customer") # Get(bMeta, "customer")
          /\ vres = Returned(FALSE, INVALID_SIGNATURE, Undef)

\* an archive built without customer information whose exportDate was edited
C13_Witness ==
    /\ Opened /\ tamper = "editExportDate" /\ bCustomer = Obj(<<>>)
    /\ Get(bMeta, "customer")
          \in {Obj(<<Fld("name", Str("Anonymous")), Fld("email", Str("")),
                     Fld("notes", Str("")), Fld("exportDate", IsoString(d))>>) :
                  d \in 0..MaxClock}
    /\ vres.valid = FALSE

\* a finished sendToManufacturer call is what the last export ended with
SendEnded == event.result # Undef

\* C14: every sendToManufacturer call makes exactly one network call, a POST
\* whose multipart body carries the archive as file and the fields
\* customerName, customerEmail and notes, and makes no other call whatever
\* the outcome of that one is.
C14_SinglePost ==
    /\ \A i \in Running :
          IF ex[i].pc = "sending"
          THEN /\ Len(ex[i].requests) = 1
               /\ LET req == ex[i].requests[1]
                      info == ex[i].customerInfo
                  IN  /\ req.method = "POST"
                      /\ req.url = MANUFACTURER_ENDPOINT
                      /\ [n \in 1..Len(req.body) |-> req.body[n].k]
                            = <<"file", "customerName", "customerEmail", "notes">>
                      /\ req.body[1].v.blob = ex[i].zipBlob
                      /\ req.body[2].v = Get(info, "name")
                      /\ req.body[3].v = Get(info, "email")
                      /\ req.body[4].v = Get(info, "notes")
          ELSE ex[i].requests = <<>>
    /\ SendEnded => event.calls = 1

\* a call that failed for want of a connection, and made one request
C14_Witness ==
    /\ SendEnded
    /\ event.response.kind = "networkError"
    /\ event.result.success = FALSE
    /\ event.calls = 1
    /\ Running = {}

\* C15: sendToManufacturer never throws -- a response whose status is not 2xx
\* gives {success: false} with the status code in error whatever the body
\* holds, and a network failure gives {success: false} with the message of
\* the underlying error.
C15_SendNeverThrows ==
    SendEnded =>
        /\ event.result.outcome = "returned"
        /\ (event.response.kind = "http" /\ event.response.status \notin 200..299) =>
              /\ event.result.success = FALSE
              /\ event.result.error = ServerResponded(event.response.status)
              /\ event.result.error.respondedWith = event.response.status
        /\ event.response.kind = "networkError" =>
              /\ event.result.success = FALSE
              /\ event.result.error = event.response.err.message

\* a 500 whose body says success
C15_Witness ==
    /\ SendEnded
    /\ event.response.kind = "http" /\ event.response.status = 500
    /\ event.response.body = AcceptedBody
    /\ event.result = SendReturned(FALSE, Undef, ServerResponded(500))
    /\ event.type = "alert"

\* the other case of C15: no response at all
C15_WitnessNetwork ==
    /\ SendEnded
    /\ event.response.kind = "networkError"
    /\ event.result = SendReturned(FALSE, Undef, Str("Failed to fetch"))

\* C16: captureCanvasSnapshot never throws and its promise never rejects --
\* without a render surface, and when reading the pixels or converting them
\* to a blob fails at any step, it resolves to null; otherwise it resolves to
\* the image blob.
C16_CaptureNeverRejects ==
    /\ event.cause # "capture"
    /\ \A i \in Running :
          /\ ex[i].pc = "captured" =>
                /\ ex[i].capture.settled = "resolved"
                /\ ex[i].capture.value = (IF ex[i].capture.step = "blob"
                                          THEN PngBlob ELSE Null)
          /\ ex[i].pc \in {"digest", "zipping", "sending"} =>
                ex[i].snapshot \in {Null, PngBlob}

\* the conversion to a blob failed after the pixels were read
C16_Witness ==
    \E i \in Running :
        /\ ex[i].pc = "captured"
        /\ ex[i].framesAtRead > 0
        /\ ex[i].capture = Resolved("error", Null)

\* the other cases of C16: no render surface, and a blob
C16_WitnessNoSurface ==
    \E i \in Running :
        ex[i].pc = "captured" /\ ex[i].capture = Resolved("none", Null)

C16_WitnessBlob ==
    \E i \in Running :
        ex[i].pc = "captured" /\ ex[i].capture = Resolved("blob", PngBlob)

CompleteArchive(blob) ==
    /\ blob.kind = "zip"
    /\ {"configuration.json", "README.txt"} \subseteq DOMAIN blob.files

\* C17: a failure while packaging leaves createExportZip as a failure and never
\* as an empty or partial archive, and downloadZipFile is called only in the
\* step in which the build of a download export resolved, with the archive
\* that build wrote; an export that failed downloads nothing.
C17_DownloadAfterBuild ==
    [][/\ event' # event =>
            /\ event'.type = "download" =>
                  \E i \in Running :
                      /\ ex[i].pc = "zipping" /\ ex[i].method = "download"
                      /\ ex'[i].pc = "idle"
                      /\ event'.blob = ZipBlob(ex[i].zip)
                      /\ CompleteArchive(event'.blob)
            /\ event'.cause \in {"capture", "build"} =>
                  (event'.type = "alert" /\ event'.blob = Undef)
       /\ \A i \in Running :
            (ex[i].pc = "zipping" /\ ex'[i].pc = "sending") =>
                (ex'[i].zipBlob = ZipBlob(ex[i].zip) /\ CompleteArchive(ex'[i].zipBlob))
      ]_vars

\* an archive was downloaded
C17_Witness ==
    /\ event.type = "download"
    /\ CompleteArchive(event.blob)
    /\ ~ isExportModalOpen /\ ~ isExporting

\* the other case of C17: the packaging failed and nothing was downloaded
C17_WitnessFailed ==
    /\ event.type = "alert" /\ event.cause = "build"
    /\ event.alert = Alert("Export failed: ", Str("compression failed"), "")
    /\ event.blob = Undef

\* the application state a configuration was serialized from
StateOf(config) ==
    LET icon == Get(config, "icon")
        colors == Get(config, "colors")
        transform == Get(config, "transform")
        mirror == Get(config, "mirror")
        performance == Get(config, "performance")
    IN  [selectedPreset |-> Get(icon, "selectedPreset"),
         shapeType |-> Get(icon, "shapeType"),
         customSvgPath |-> Get(icon, "customSvgPath"),
         svgRenderMode |-> Get(icon, "svgRenderMode"),
         wallColor |-> Get(colors, "wallColor"),
         frameColor |-> Get(colors, "frameColor"),
         lightColor |-> Get(colors, "lightColor"),
         mirrorSpacing |-> Get(mirror, "spacing"),
         iconScale |-> Get(transform, "scale"),
         iconRotation |-> Get(transform, "rotation"),
         iconPositionX |-> Get(transform, "positionX"),
         iconPositionY |-> Get(transform, "positionY"),
         edgeThickness |-> Get(transform, "edgeThickness"),
         reflectionDepth |-> Get(mirror, "reflectionDepth"),
         autoOrbit |-> Get(performance, "autoOrbit"),
         enableBloom |-> Get(performance, "enableBloom")]

\* the document an export wrote into its archive
Packaged(i) == JSONParse(ex[i].zip["configuration.json"]).v

\* C18: the configuration an export signs and packages is the application
\* state as it was when the export handler started, whatever was changed in
\* the controls while the export was suspended.
C18_FrozenConfiguration ==
    \A i \in Running :
        /\ ex[i].pc \in {"digest", "zipping", "sending"} =>
              StateOf(ex[i].meta) = ex[i].closure
        /\ ex[i].pc \in {"zipping", "sending"} =>
              LET doc == Packaged(i)
              IN  /\ StateOf(Get(doc, "config")) = ex[i].closure
                  /\ Get(doc, "signature")
                        = generateSignature(ex[i].meta, DEFAULT_SECRET)
                  /\ FieldEqual(Get(doc, "config"), ex[i].meta)

\* the shape and the wall colour were changed while the archive was being built
C18_Witness ==
    \E i \in Running :
        /\ ex[i].pc = "zipping"
        /\ ui.shapeType # ex[i].closure.shapeType
        /\ ui.wallColor # ex[i].closure.wallColor
        /\ StateOf(Get(Packaged(i), "config")) = ex[i].closure

\* C19: at most one export, download or send, is in progress at any time, and
\* isExporting is set for as long as it is, so the snapshot and the signed
\* configuration of an archive are those of one export.
C19_SingleExport ==
    /\ Cardinality(Running) <= 1
    /\ Running # {} => isExporting
    /\ Running = {} => ~ isExporting

\* an export is suspended while the dialog is open with a form that is valid
C19_Witness ==
    /\ isExportModalOpen /\ isExporting
    /\ \E i \in Running : ex[i].pc = "zipping" /\ ex[i].method = "download"
    /\ \E form \in Forms : isFormValid("download", form)
    /\ \A form \in Forms : primaryDisabled("download", form, isExporting)

\* C20: with a render surface, captureCanvasSnapshot reads the pixels only
\* once two requestAnimationFrame callbacks in a row have run, never before
\* the second one.
C20_ReadAfterTwoFrames ==
    \A i \in Running :
        /\ ex[i].pc \in {"raf1", "raf2"} =>
              (ex[i].framesAtRead = 0 /\ ex[i].frames = (IF ex[i].pc = "raf1" THEN 0 ELSE 1))
        /\ ex[i].pc = "fetching" => ex[i].framesAtRead > 0
        /\ ex[i].framesAtRead > 0 => (ex[i].framesAtRead >= 2 /\ ex[i].frames >= 2)

\* the pixels were read in the second callback
C20_Witness ==
    \E i \in Running :
        ex[i].pc = "fetching" /\ ex[i].frames = 2 /\ ex[i].framesAtRead = 2

\* C21: a send export is entered only with customer information whose trimmed
\* name and trimmed email are not empty and whose email contains '@'; no
\* content of the customer fields keeps a download export from being entered.
C21_SendNeedsContact ==
    /\ \A i \in Running :
          /\ \E form \in Forms : ex[i].customerInfo = handleExport(form)
          /\ ex[i].method = "send" =>
                LET name == Get(ex[i].customerInfo, "name").s
                    email == Get(ex[i].customerInfo, "email").s
                IN  /\ name # "" /\ Trim(name) = name
                    /\ email # "" /\ Trim(email) = email
                    /\ \E n \in 1..Len(email) : SubSeq(email, n, n) = "@"
    /\ (isExportModalOpen /\ ~ isExporting) =>
          \A form \in Forms : ~ primaryDisabled("download", form, isExporting)

\* a send export entered from fields typed with blanks around them
C21_Witness ==
    \E i \in Running :
        /\ ex[i].method = "send"
        /\ Get(ex[i].customerInfo, "name") = Str("John Doe")
        /\ Get(ex[i].customerInfo, "email") = Str("john@example.com")

\* the other case of C21: a download export with an email that has no '@'
C21_WitnessDownload ==
    \E i \in Running :
        /\ ex[i].method = "download"
        /\ Get(ex[i].customerInfo, "email") = Str("bob.example.com")

\* the lines of the README.txt written into the archive under construction
Manifest == bZip["README.txt"].readme

\* C22: the README.txt of every built archive lists exactly the files the
\* archive holds -- preview.png is listed if and only if a preview.png entry
\* was written, and custom-icon.svg if and only if a custom-icon.svg entry was.
C22_ManifestExact ==
    bPc \in {"zipping", "done"} =>
        /\ "preview.png" \in Manifest.files <=> "preview.png" \in DOMAIN bZip
        /\ "custom-icon.svg" \in Manifest.files <=> "custom-icon.svg" \in DOMAIN bZip

\* C25: the export date in README.txt is the exportDate of the signed
\* configuration of the same archive, also when the clock moves on while the
\* build waits for the digest.
C25_ReadmeDateMatches ==
    bPc \in {"zipping", "done"} =>
        Manifest.exportDate = Get(Get(bMeta, "customer"), "exportDate")

\* C23: in the send flow a failed submission (a failure result of
\* sendToManufacturer: non-2xx response, network error) is shown to the user
\* with the advice to download the file and send it by hand, leaves the
\* dialog as it was and clears isExporting; the send flow closes the dialog
\* only in the step in which the submission result is a success.
C23_SendFailureSurfaced ==
    [][\A i \in Running :
          (ex[i].method = "send" /\ ex'[i] # ex[i]) =>
              /\ (ex[i].pc = "sending" /\ ~ event'.result.success) =>
                    /\ event'.type = "alert"
                    /\ event'.alert.prefix = "Failed to send to manufacturer: "
                    /\ event'.alert.message = event'.result.error
                    /\ event'.alert.suffix = MANUAL_FALLBACK
                    /\ isExportModalOpen' = isExportModalOpen
                    /\ ~ isExporting'
              /\ isExportModalOpen' # isExportModalOpen =>
                    /\ ex[i].pc = "sending"
                    /\ event'.result.success
                    /\ ~ isExportModalOpen'
      ]_vars

\* a 500 answer: the alert is up, the dialog is still open, nothing is processing
C23_Witness ==
    /\ event.type = "alert" /\ event.cause = "send"
    /\ event.response.kind = "http" /\ event.response.status = 500
    /\ event.alert.suffix = MANUAL_FALLBACK
    /\ isExportModalOpen /\ ~ isExporting

\* the other case of C23: the submission succeeded and the dialog was closed
C23_WitnessSuccess ==
    /\ event.type = "sent" /\ event.result.success
    /\ ~ isExportModalOpen /\ ~ isExporting

\* C24: a submission is reported as a success only when the acknowledgment of
\* the manufacturer says so -- a 2xx response whose JSON body has
\* success = false, or whose body is no JSON, is not reported as a success
\* to the caller or to the user.
C24_AcknowledgedSuccess ==
    SendEnded =>
        LET body == JSONParse(event.response.body)
            acknowledged == /\ event.response.kind = "http"
                            /\ ResponseOk(event.response.status)
                            /\ body.ok
                            /\ Get(body.v, "success") = Bool(TRUE)
        IN  /\ event.result.success => acknowledged
            /\ event.type = "sent" => acknowledged

\* C26: after any sequence of preset selections and uploads, a selectedPreset
\* other than "custom" is also the shapeType, and a shapeType "custom" comes
\* with selectedPreset "custom" and a customSvgPath that is not null.
C26_IconInvariant ==
    /\ ui.selectedPreset # Str("custom") => ui.shapeType = ui.selectedPreset
    /\ ui.shapeType = Str("custom") =>
          (ui.selectedPreset = Str("custom") /\ ui.customSvgPath # Null)

\* "custom" was selected again after an upload and a preset: the shape is
\* still the preset and the uploaded text is still stored
C26_Witness ==
    /\ ui.selectedPreset = Str("custom")
    /\ ui.shapeType = Str("star")
    /\ ui.customSvgPath # Null

\* the other case of C26: an upload was accepted
C26_WitnessCustom ==
    /\ ui.shapeType = Str("custom") /\ ui.selectedPreset = Str("custom")
    /\ ui.customSvgPath \in {Str(x) : x \in SvgTexts}

\* the file is one the upload turns down
RejectedUpload(file) ==
    \/ /\ file.type # "image/svg+xml"
       /\ \/ Len(file.name) < 4
          \/ SubSeq(file.name, Len(file.name) - 3, Len(file.name))
                \notin {".svg", ".SVG", ".Svg"}
    \/ /\ \A n \in 1..(Len(file.text) - 3) : SubSeq(file.text, n, n + 3) # "<svg"
       /\ \A n \in 1..(Len(file.text) - 4) : SubSeq(file.text, n, n + 4) # "<path"
    \/ ~ file.wellFormed

\* C27: a rejected upload changes nothing -- after a file that is no SVG by
\* type or extension, whose text holds neither '<svg' nor '<path', or whose
\* parsing reports an error, selectedPreset, shapeType and customSvgPath are
\* what they were before.
C27_RejectedUploadFrame ==
    (upload.done /\ RejectedUpload(upload.file)) => IconOf(ui) = upload.before

\* a file that passes the type and content checks and fails to parse, given
\* while an earlier upload is in use
C27_Witness ==
    /\ upload.done
    /\ upload.file.name = "broken.svg" /\ ~ upload.file.wellFormed
    /\ upload.before.shapeType = Str("custom")
    /\ IconOf(ui) = upload.before

\* the other cases of C27: wrong type, and no SVG content
C27_WitnessType ==
    upload.done /\ upload.file.type = "image/png" /\ IconOf(ui) = upload.before

C27_WitnessContent ==
    upload.done /\ upload.file.name = "notes.svg" /\ IconOf(ui) = upload.before

\* an accepted upload does change the icon
C27_WitnessAccepted ==
    /\ upload.done /\ upload.file.name = "LOGO.SVG"
    /\ IconOf(ui) # upload.before
    /\ ui.shapeType = Str("custom")

\* C28: while an export is processing, the dialog is closed by nothing but the
\* export handler finishing successfully (a download or an accepted
\* submission); no click on the dialog closes it.
C28_NoCloseWhileProcessing ==
    [][(isExporting /\ isExportModalOpen /\ ~ isExportModalOpen') =>
            /\ \E i \in Running : ex'[i].pc = "idle"
            /\ event'.type \in {"download", "sent"}
      ]_vars

\* C29: every export that was started finishes -- its handler reaches its
\* finally block -- and isExporting is false then, given that frame callbacks
\* fire and the awaited promises settle.
C29_ExportFinishes ==
    \A i \in 1..MaxExports :
        (ex[i].pc # "idle") ~> (ex[i].pc = "idle" /\ ~ isExporting)

\* an export was started, went through both frames and the POST, and is over
C29_Witness ==
    /\ event.type \in {"sent", "alert"}
    /\ event.calls = 1
    /\ Running = {}
    /\ ~ isExporting

\* a download without a canvas is over as well
C29_WitnessNoCanvas ==
    /\ event.type = "download"
    /\ event.blob # Undef
    /\ Running = {}
    /\ ~ isExporting

\* what C30 says the verdict depends on: configuration.json alone and, where
\* it holds an object, the config and signature fields of that object alone
Canon(blob) ==
    IF ~ HasDoc(blob) THEN ZipBlob(EmptyZip)
    ELSE LET parsed == JSONParse(DocText(blob))
         IN  IF parsed.ok /\ parsed.v.t = "obj"
             THEN WithDoc(ZipBlob(EmptyZip),
                          Obj(<<Fld("config", Get(parsed.v, "config")),
                                Fld("signature", Get(parsed.v, "signature"))>>))
             ELSE WithDocText(ZipBlob(EmptyZip), DocText(blob))

\* C30: the verdict of validateImportedConfig depends on the config and
\* signature fields of configuration.json only -- the archive reduced to them
\* gets the verdict the archive got, so two archives that differ in
\* preview.png, custom-icon.svg, README.txt or other entries get the same
\* valid, error and config.
C30_VerdictFromDocumentOnly ==
    (Opened /\ received.kind = "zip") =>
        validateImportedConfig(Canon(received)) = vres

\* an archive whose custom-icon.svg is not the signed SVG source is valid
C30_Witness ==
    /\ tamper = "swapIcon"
    /\ vres.valid
    /\ hasCustomSvg(vres.config)
    /\ received.files["custom-icon.svg"] #
          Get(Get(vres.config, "icon"), "customSvgPath")
    /\ received.files["custom-icon.svg"] # zipBlob.files["custom-icon.svg"]

\* an archive of configuration.json alone is valid
C30_WitnessStripped ==
    /\ tamper = "stripExtras"
    /\ vres.valid
    /\ DOMAIN received.files = {"configuration.json"}
    /\ DOMAIN zipBlob.files # DOMAIN received.files

====
